---- MODULE Spec2Model ----
(***************************************************************************)
(* Context / surface lifecycle of surfman: the CGL context wrapper         *)
(* (platform/macos/cgl/context.rs) and the EGL surface manager             *)
(* (platform/android/surface.rs).                                          *)
(*                                                                         *)
(* Values are modelled as Rust values: a Surface is a record that is moved *)
(* between its holders (the caller, a context's framebuffer slot, a        *)
(* SurfaceTexture); a by-value parameter that is not moved on is dropped   *)
(* when the function returns, and the drop runs `impl Drop for Surface`.   *)
(* Native objects (GL names, EGL images and surfaces, CGL contexts) are    *)
(* nonzero numbers kept in the sets nativeLive and cglLive while allocated.*)
(***************************************************************************)
EXTENDS Integers, Sequences, FiniteSets, TLC

\* ----- bounds ------------------------------------------------------------
MaxContexts == 2
MaxSurfaces == 2
NumThreads  == 2

\* The largest GL version (major.minor) a caller asks a descriptor for.
MaxMajor    == 4
MaxMinor    == 3

Threads == 1..NumThreads
\* The thread that owns the contexts and surfaces and calls every operation
\* on them (Context and Surface are thread-confined); the other threads only
\* race it in create_context.
Main == CHOOSE t \in Threads : \A u \in Threads : t <= u
\* Side lengths (surfaces are square here): the sizes a caller asks for a
\* Generic surface, and the sizes a native window reports.
GenericSizes == {256}
WindowSizes  == {800}

\* ----- sentinels ---------------------------------------------------------
NullContext == 0      \* ptr::null_mut() as CGLContextObj
NoImage     == 0      \* egl::NO_IMAGE_KHR
NoSurface   == 0      \* egl::NO_SURFACE
NoGLObject  == 0      \* GL object name 0

\* ----- CGL profile values ------------------------------------------------
kCGLOGLPVersion_Legacy   == 4096      \* 0x1000
kCGLOGLPVersion_3_2_Core == 12800     \* 0x3200
kCGLOGLPVersion_GL4_Core == 16640     \* 0x4100

\* Option<T>: None is the empty sequence, Some(v) a one-element sequence.
None    == <<>>
Some(v) == <<v>>

\* ----- crate::surface::Framebuffer<Surface> ------------------------------
FramebufferNone       == [tag |-> "None", surface |-> None]
FramebufferExternal   == [tag |-> "External", surface |-> None]
FramebufferSurface(s) == [tag |-> "Surface", surface |-> Some(s)]

\* ----- SurfaceObjects ----------------------------------------------------
EGLImage(image, fbo, tex, rb) ==
    [tag |-> "EGLImage", egl_image |-> image, framebuffer_object |-> fbo,
     texture_object |-> tex, renderbuffers |-> rb]
Window(surf) == [tag |-> "Window", egl_surface |-> surf]

\* The native handles a SurfaceObjects value tracks that are not null.
Handles(objects) ==
    IF objects.tag = "Window"
    THEN {objects.egl_surface} \ {NoSurface}
    ELSE ({objects.egl_image} \ {NoImage})
         \cup ({objects.framebuffer_object, objects.texture_object,
                objects.renderbuffers} \ {NoGLObject})

\* A native allocator hands out a name that is not in use: the j-th native
\* object made for the k-th surface of the run gets a name of its own.
NativeName(k, j) == 5 * (k - 1) + j

VARIABLES
    contexts,      \* Seq of Context values, in order of creation
    ctxMeta,       \* ctxMeta[i]: whether the caller still holds contexts[i]
                   \* (it has not been dropped), the thread that created it
                   \* and whether destroy_context has returned Ok for it
    bindLog,       \* bindLog[i]: the surface passed to the bind that filled
                   \* contexts[i]'s slot, None when the slot is not filled
    held,          \* the Surface values the caller holds
    textures,      \* the SurfaceTexture values the caller holds
    numSurfaces,   \* surfaces created so far (bounds the model)
    nativeLive,    \* GL / EGL objects allocated and not released
    cglLive,       \* CGL context objects allocated and not destroyed
    cglSerial,     \* CGL context objects allocated so far
    current,       \* CGLGetCurrentContext() on the Main thread
    panicking,     \* thread::panicking() on the Main thread
    next_context_id, \* the value guarded by CREATE_CONTEXT_MUTEX
    mutex,         \* Some(t) while thread t holds CREATE_CONTEXT_MUTEX, else None
    pc,            \* pc[t]: where thread t is inside create_context
    local,         \* local[t]: create_context's locals (cgl_context, id)
    wrapLog,       \* <<t, s>>: the texture named t that the caller holds
                   \* was made by create_surface_texture from the surface s
    createdFor,    \* createdFor[k]: the id of the context that the k-th
                   \* create_surface call was given
    descriptor,    \* the ContextDescriptor the caller holds, if any, with
                   \* the attributes it was asked for
    last           \* the last call: its arguments, pre-state and outcome

vars == <<contexts, ctxMeta, bindLog, held, textures, numSurfaces, nativeLive, cglLive,
          cglSerial, current, panicking, next_context_id, mutex, pc, local,
          wrapLog, createdFor, descriptor, last>>


\* ----- the record kept of the last call ----------------------------------
\* result: the value of the function's return expression ("Ok" or the name
\* of the Error variant); fault: the panic raised before the value reached
\* the caller ("none" when there was none).
Outcome(l) == IF l.fault # "none" THEN "Panic" ELSE l.result

\* native: whether the native call the function depends on succeeded.
\* pre, preBind, preLive, preCurrent, wasPanicking: the context argument, its
\* bindLog entry, nativeLive, the thread's current context and
\* thread::panicking() as they were before the call.
\* rebind: the call is a bind, to the same context, of the surface that the
\* call right before it unbound.
Call(op, c, arg, result, ret, dropped, fault, native) ==
    [op |-> op, c |-> c, arg |-> arg, result |-> result, ret |-> ret,
     dropped |-> dropped, fault |-> fault, native |-> native,
     pre |-> IF c = 0 THEN None ELSE Some(contexts[c]),
     preBind |-> IF c = 0 THEN None ELSE bindLog[c],
     preLive |-> nativeLive,
     preCurrent |-> current,
     wasPanicking |-> panicking,
     rebind |-> /\ op = "bind_surface_to_context"
                /\ last.op = "unbind_surface_from_context"
                /\ Outcome(last) = "Ok"
                /\ last.c = c
                /\ last.ret # None
                /\ last.ret = arg]

\* ----- impl Drop ---------------------------------------------------------
\* (variant: the drop does not look at thread::panicking())
drop_Surface_ignoring_unwind(surface, isPanicking) ==
    ~surface.destroyed

\* impl Drop for Surface: TRUE when the drop panics.
drop_Surface(surface, isPanicking) ==
    ~surface.destroyed /\ ~isPanicking

\* (variant: the drop does not look at the native handle)
drop_Context_ignoring_handle(context, isPanicking) ==
    ~isPanicking

\* impl Drop for Context: TRUE when the drop panics.
drop_Context(context, isPanicking) ==
    context.cgl_context # NullContext /\ ~isPanicking

\* The panic, if any, raised by dropping an Option<Surface>.
DropFault(dropped, isPanicking) ==
    IF dropped # None /\ drop_Surface(dropped[1], isPanicking)
    THEN "surface_drop" ELSE "none"

\* ----- Device::bind_surface_to_context -----------------------------------
\* (variant: the surface's context_id is not compared with the context's id)
bind_surface_to_context_unchecked(context, new_surface) ==
    IF context.framebuffer.tag = "External"
    THEN [result |-> "ExternalRenderTarget", context |-> context,
          dropped |-> Some(new_surface)]
    ELSE IF context.framebuffer.tag = "Surface"
    THEN [result |-> "SurfaceAlreadyBound", context |-> context,
          dropped |-> Some(new_surface)]
    ELSE [result |-> "Ok",
          context |-> [context EXCEPT !.framebuffer = FramebufferSurface(new_surface)],
          dropped |-> None]

\* dropped: the by-value parameter when it was not moved into the context.
bind_surface_to_context(context, new_surface) ==
    IF context.framebuffer.tag = "External"
    THEN [result |-> "ExternalRenderTarget", context |-> context,
          dropped |-> Some(new_surface)]
    ELSE IF context.framebuffer.tag = "Surface"
    THEN [result |-> "SurfaceAlreadyBound", context |-> context,
          dropped |-> Some(new_surface)]
    ELSE IF new_surface.context_id # context.id
    THEN [result |-> "IncompatibleSurface", context |-> context,
          dropped |-> Some(new_surface)]
    ELSE [result |-> "Ok",
          context |-> [context EXCEPT !.framebuffer = FramebufferSurface(new_surface)],
          dropped |-> None]

\* ----- Device::make_context_current --------------------------------------
\* setOk: whether CGLSetCurrentContext returned kCGLNoError.
make_context_current(context, cur, setOk) ==
    IF setOk THEN [result |-> "Ok", current |-> context.cgl_context]
             ELSE [result |-> "MakeCurrentFailed", current |-> cur]

\* CurrentContextGuard::new, then make_context_current; the guard is dropped
\* (restoring old_cgl_context) on the error path.
temporarily_make_context_current(context, cur, setOk) ==
    LET guard == [old_cgl_context |-> cur]
        made  == make_context_current(context, cur, setOk)
    IN  IF made.result = "Ok"
        THEN [result |-> "Ok", guard |-> Some(guard), current |-> made.current]
        ELSE [result |-> made.result, guard |-> None,
              current |-> guard.old_cgl_context]

\* ----- Device::unbind_surface_from_context -------------------------------
\* ret: the Option<Surface> of an Ok; dropped: the surface captured by the
\* flush closure when the closure returns early.

\* (variant: the surface is torn down before it is handed back)
unbind_taken_marking_destroyed(context, cur, setOk) ==
    LET taken == context.framebuffer
        ctx1  == [context EXCEPT !.framebuffer = FramebufferNone]
    IN  IF taken.tag = "None"
        THEN [result |-> "Ok", context |-> ctx1, ret |-> None,
              dropped |-> None, current |-> cur]
        ELSE [result |-> "Ok", context |-> ctx1,
              ret |-> Some([taken.surface[1] EXCEPT !.destroyed = TRUE]),
              dropped |-> None, current |-> cur]

\* (variant: the slot is read, not taken, so it keeps the surface)
unbind_taken_keeping_slot(context, cur, setOk) ==
    LET taken == context.framebuffer
    IN  IF taken.tag = "None"
        THEN [result |-> "Ok", context |-> context, ret |-> None,
              dropped |-> None, current |-> cur]
        ELSE LET tmp == temporarily_make_context_current(context, cur, setOk)
             IN  IF tmp.result # "Ok"
                 THEN [result |-> tmp.result, context |-> context,
                       ret |-> None, dropped |-> None,
                       current |-> tmp.current]
                 ELSE [result |-> "Ok", context |-> context,
                       ret |-> taken.surface, dropped |-> None,
                       current |-> tmp.guard[1].old_cgl_context]

\* (variant: the guard is forgotten, so the context stays current)
unbind_taken_leaving_context_current(context, cur, setOk) ==
    LET taken == context.framebuffer
        ctx1  == [context EXCEPT !.framebuffer = FramebufferNone]
    IN  IF taken.tag = "None"
        THEN [result |-> "Ok", context |-> ctx1, ret |-> None,
              dropped |-> None, current |-> cur]
        ELSE LET tmp == temporarily_make_context_current(ctx1, cur, setOk)
             IN  IF tmp.result # "Ok"
                 THEN [result |-> tmp.result, context |-> ctx1,
                       ret |-> None, dropped |-> taken.surface,
                       current |-> tmp.current]
                 ELSE [result |-> "Ok", context |-> ctx1,
                       ret |-> taken.surface, dropped |-> None,
                       current |-> tmp.current]

\* The second match: mem::replace takes what the slot holds; a surface is
\* handed back after the context was made current and flushed.
unbind_taken(context, cur, setOk) ==
    LET taken == context.framebuffer
        ctx1  == [context EXCEPT !.framebuffer = FramebufferNone]
    IN  IF taken.tag = "None"
        THEN [result |-> "Ok", context |-> ctx1, ret |-> None,
              dropped |-> None, current |-> cur]
        ELSE LET tmp == temporarily_make_context_current(ctx1, cur, setOk)
             IN  IF tmp.result # "Ok"
                 THEN [result |-> tmp.result, context |-> ctx1,
                       ret |-> None, dropped |-> taken.surface,
                       current |-> tmp.current]
                 ELSE \* gl.Flush(); then _guard is dropped
                      [result |-> "Ok", context |-> ctx1,
                       ret |-> taken.surface, dropped |-> None,
                       current |-> tmp.guard[1].old_cgl_context]

\* (variant: the first match, on Framebuffer::External, is missing)
unbind_without_external_check(context, cur, setOk) ==
    unbind_taken(context, cur, setOk)

unbind_surface_from_context(context, cur, setOk) ==
    IF context.framebuffer.tag = "External"
    THEN [result |-> "ExternalRenderTarget", context |-> context,
          ret |-> None, dropped |-> None, current |-> cur]
    ELSE unbind_taken(context, cur, setOk)

\* ----- Renderbuffers (crate::renderbuffers) ------------------------------
\* Renderbuffers::new allocates the depth/stencil renderbuffer set.
renderbuffers_new(k) == NativeName(k, 4)
\* Renderbuffers::destroy deletes the set and zeroes its names.
renderbuffers_destroy(renderbuffers, live) ==
    [renderbuffers |-> NoGLObject, live |-> live \ {renderbuffers}]

\* ----- Device::destroy_surface -------------------------------------------
\* surface: the by-value parameter as it is when the function returns and it
\* is dropped; assert: the assert_ne! on egl::DestroyImageKHR failed, which
\* happens when the image is not a live image.

\* (variant: the leaked surface is not marked destroyed)
leak_surface_unmarked(surface, live) ==
    [result |-> "IncompatibleSurface", surface |-> surface, live |-> live,
     assert |-> FALSE]

\* Leak the surface, and return an error.
leak_surface(surface, live) ==
    [result |-> "IncompatibleSurface",
     surface |-> [surface EXCEPT !.destroyed = TRUE],
     live |-> live, assert |-> FALSE]

\* SurfaceObjects::EGLImage: framebuffer, renderbuffers, image, texture.
release_generic(surface, live) ==
    LET o     == surface.objects
        live1 == live \ {o.framebuffer_object}
        rb    == renderbuffers_destroy(o.renderbuffers, live1)
        o1    == [o EXCEPT !.framebuffer_object = NoGLObject,
                           !.renderbuffers = rb.renderbuffers]
    IN  IF o.egl_image \notin rb.live
        THEN [result |-> "Ok",
              surface |-> [surface EXCEPT !.objects = o1],
              live |-> rb.live, assert |-> TRUE]
        ELSE [result |-> "Ok",
              surface |-> [surface EXCEPT
                             !.objects = [o1 EXCEPT !.egl_image = NoImage,
                                                    !.texture_object = NoGLObject],
                             !.destroyed = TRUE],
              live |-> (rb.live \ {o.egl_image}) \ {o.texture_object},
              assert |-> FALSE]

\* (variant: the native surface is destroyed but its handle is kept)
release_window_keeping_handle(surface, live) ==
    [result |-> "Ok",
     surface |-> [surface EXCEPT !.destroyed = TRUE],
     live |-> live \ {surface.objects.egl_surface},
     assert |-> FALSE]

\* SurfaceObjects::Window: the native surface.
release_window(surface, live) ==
    [result |-> "Ok",
     surface |-> [surface EXCEPT !.objects.egl_surface = NoSurface,
                                 !.destroyed = TRUE],
     live |-> live \ {surface.objects.egl_surface},
     assert |-> FALSE]

destroy_surface(context, surface, live) ==
    IF context.id # surface.context_id
    THEN leak_surface(surface, live)
    ELSE IF surface.objects.tag = "EGLImage"
    THEN release_generic(surface, live)
    ELSE release_window(surface, live)

\* ----- Device::destroy_context -------------------------------------------
\* (variant: the handle is not zeroed after CGLDestroyContext)
release_native_context_keeping_handle(context, cgl) ==
    [context |-> context, cgl |-> cgl \ {context.cgl_context},
     current |-> NullContext]

\* CGLSetCurrentContext(null); CGLDestroyContext; cgl_context = null.
release_native_context(context, cgl) ==
    [context |-> [context EXCEPT !.cgl_context = NullContext],
     cgl |-> cgl \ {context.cgl_context},
     current |-> NullContext]

\* (variant: the early return on a null handle is missing)
destroy_context_without_null_check(context, live, cgl, cur) ==
    LET taken == context.framebuffer
        ctx1  == [context EXCEPT !.framebuffer = FramebufferNone]
        ds    == IF taken.tag = "Surface"
                 THEN destroy_surface(ctx1, taken.surface[1], live)
                 ELSE [result |-> "Ok", surface |-> None, live |-> live,
                       assert |-> FALSE]
        gone  == IF taken.tag = "Surface" THEN Some(ds.surface) ELSE None
        rel   == release_native_context(ctx1, cgl)
    IN  IF ds.result # "Ok" \/ ds.assert
        THEN [result |-> ds.result, context |-> ctx1, live |-> ds.live,
              cgl |-> cgl, current |-> cur, dropped |-> gone,
              assert |-> ds.assert]
        ELSE [result |-> "Ok", context |-> rel.context,
              live |-> ds.live, cgl |-> rel.cgl,
              current |-> rel.current, dropped |-> gone,
              assert |-> FALSE]

\* dropped: the bound surface as destroy_surface left it.
destroy_context(context, live, cgl, cur) ==
    IF context.cgl_context = NullContext
    THEN [result |-> "Ok", context |-> context, live |-> live, cgl |-> cgl,
          current |-> cur, dropped |-> None, assert |-> FALSE]
    ELSE LET taken == context.framebuffer
             ctx1  == [context EXCEPT !.framebuffer = FramebufferNone]
             ds    == IF taken.tag = "Surface"
                      THEN destroy_surface(ctx1, taken.surface[1], live)
                      ELSE [result |-> "Ok", surface |-> None, live |-> live,
                            assert |-> FALSE]
             gone  == IF taken.tag = "Surface" THEN Some(ds.surface) ELSE None
             rel   == release_native_context(ctx1, cgl)
         IN  IF ds.result # "Ok" \/ ds.assert
             THEN [result |-> ds.result, context |-> ctx1, live |-> ds.live,
                   cgl |-> cgl, current |-> cur, dropped |-> gone,
                   assert |-> ds.assert]
             ELSE [result |-> "Ok", context |-> rel.context,
                   live |-> ds.live, cgl |-> rel.cgl,
                   current |-> rel.current, dropped |-> gone,
                   assert |-> FALSE]

\* ----- Device::create_surface --------------------------------------------
\* (variant: the surface is stamped with the id after the context's)
NewSurface_with_next_id(context, size, objects) ==
    [context_id |-> context.id + 1, size |-> size, objects |-> objects,
     destroyed |-> FALSE]

NewSurface(context, size, objects) ==
    [context_id |-> context.id, size |-> size, objects |-> objects,
     destroyed |-> FALSE]

\* k: the serial number of the surface being made.  imageOk: whether
\* egl::CreateImageKHR returned an image; the texture is generated before
\* the image, the framebuffer and renderbuffers after it.
create_generic_surface(context, size, live, k, imageOk) ==
    LET texture_object     == NativeName(k, 1)
        egl_image          == NativeName(k, 2)
        framebuffer_object == NativeName(k, 3)
        renderbuffers      == renderbuffers_new(k)
    IN  IF ~imageOk
        THEN [result |-> "Ok", surface |-> None,
              live |-> live \cup {texture_object}, assert |-> TRUE]
        ELSE [result |-> "Ok",
              surface |-> Some(NewSurface(context, size,
                              EGLImage(egl_image, framebuffer_object,
                                       texture_object, renderbuffers))),
              live |-> live \cup {texture_object, egl_image,
                                  framebuffer_object, renderbuffers},
              assert |-> FALSE]

\* size: what ANativeWindow_getWidth/Height report; surfaceOk: whether
\* egl::CreateWindowSurface returned a surface.
create_window_surface(context, size, live, k, surfaceOk) ==
    LET egl_surface == NativeName(k, 1)
    IN  IF ~surfaceOk
        THEN [result |-> "Ok", surface |-> None, live |-> live, assert |-> TRUE]
        ELSE [result |-> "Ok",
              surface |-> Some(NewSurface(context, size, Window(egl_surface))),
              live |-> live \cup {egl_surface}, assert |-> FALSE]

create_surface(context, surface_type, size, live, k, nativeOk) ==
    IF surface_type = "Generic"
    THEN create_generic_surface(context, size, live, k, nativeOk)
    ELSE create_window_surface(context, size, live, k, nativeOk)

\* ----- Device::create_surface_texture / destroy_surface_texture ----------
\* bind_to_gl_texture generates the texture the image is bound to.
bind_to_gl_texture(egl_image) == egl_image + 3

create_surface_texture(surface, live) ==
    IF surface.objects.tag = "Window"
    THEN [result |-> "WidgetAttached", texture |-> None,
          dropped |-> Some(surface), live |-> live]
    ELSE LET texture_object == bind_to_gl_texture(surface.objects.egl_image)
         IN  [result |-> "Ok",
              texture |-> Some([surface |-> surface,
                                texture_object |-> texture_object]),
              dropped |-> None, live |-> live \cup {texture_object}]

\* (variant: the derived texture is not deleted)
destroy_surface_texture_keeping_texture(surface_texture, live) ==
    [result |-> "Ok", ret |-> Some(surface_texture.surface), live |-> live]

destroy_surface_texture(surface_texture, live) ==
    [result |-> "Ok", ret |-> Some(surface_texture.surface),
     live |-> live \ {surface_texture.texture_object}]

\* ----- Device::present_surface -------------------------------------------
\* (variant: the buffers are swapped whatever the surface is)
present_surface_swapping_any(surface) ==
    [result |-> "Ok", surface |-> surface]

present_surface_without_context(surface) ==
    IF surface.objects.tag = "Window"
    THEN [result |-> "Ok", surface |-> surface]              \* egl::SwapBuffers
    ELSE [result |-> "NoWidgetAttached", surface |-> surface]

present_surface(surface) == present_surface_without_context(surface)


\* ----- ContextAttributes and ContextDescriptor ---------------------------
ContextAttributeFlags == {"ALPHA", "DEPTH", "STENCIL"}
GLVersion_new(major, minor) == [major |-> major, minor |-> minor]

\* The attribute sets a caller asks for.
ContextAttributes ==
    [flags : SUBSET ContextAttributeFlags,
     version : {GLVersion_new(major, minor) :
                  major \in 1..MaxMajor, minor \in 0..MaxMinor}]

\* CGLChoosePixelFormat: native is "error" when the call returns an error,
\* "none" when no pixel format matches, "found" when it returns a pixel
\* format, which then has the profile and the buffer sizes asked for.
CGLChoosePixelFormat(cgl_pixel_format_attributes, native) ==
    [err |-> native = "error",
     cgl_pixel_format_count |-> IF native = "found" THEN 1 ELSE 0,
     cgl_pixel_format |->
        [kCGLPFAOpenGLProfile |-> cgl_pixel_format_attributes.kCGLPFAOpenGLProfile,
         kCGLPFAAlphaSize     |-> cgl_pixel_format_attributes.kCGLPFAAlphaSize,
         kCGLPFADepthSize     |-> cgl_pixel_format_attributes.kCGLPFADepthSize,
         kCGLPFAStencilSize   |-> cgl_pixel_format_attributes.kCGLPFAStencilSize]]

\* Device::create_context_descriptor; is_low_power: the adapter's flag.
create_context_descriptor(attributes, is_low_power, native) ==
    LET profile == IF attributes.version.major >= 4
                   THEN kCGLOGLPVersion_GL4_Core
                   ELSE IF attributes.version.major = 3
                   THEN kCGLOGLPVersion_3_2_Core
                   ELSE kCGLOGLPVersion_Legacy
        flags == attributes.flags
        alpha_size   == IF "ALPHA" \in flags THEN 8 ELSE 0
        depth_size   == IF "DEPTH" \in flags THEN 24 ELSE 0
        stencil_size == IF "STENCIL" \in flags THEN 8 ELSE 0
        cgl_pixel_format_attributes ==
            [kCGLPFAOpenGLProfile |-> profile,
             kCGLPFAAlphaSize     |-> alpha_size,
             kCGLPFADepthSize     |-> depth_size,
             kCGLPFAStencilSize   |-> stencil_size,
             kCGLPFAAllowOfflineRenderers |-> is_low_power]
        chosen == CGLChoosePixelFormat(cgl_pixel_format_attributes, native)
    IN  IF chosen.err
        THEN [result |-> "PixelFormatSelectionFailed", descriptor |-> None]
        ELSE IF chosen.cgl_pixel_format_count = 0
        THEN [result |-> "NoPixelFormatFound", descriptor |-> None]
        ELSE [result |-> "Ok",
              descriptor |-> Some([cgl_pixel_format |-> chosen.cgl_pixel_format])]

\* CGLDescribePixelFormat
get_pixel_format_attribute(context_descriptor, attribute) ==
    context_descriptor.cgl_pixel_format[attribute]

\* (variant: the minor version is taken from the wrong nibble)
context_descriptor_attributes_shifting_by_four(context_descriptor) ==
    LET alpha_size   == get_pixel_format_attribute(context_descriptor, "kCGLPFAAlphaSize")
        depth_size   == get_pixel_format_attribute(context_descriptor, "kCGLPFADepthSize")
        stencil_size == get_pixel_format_attribute(context_descriptor, "kCGLPFAStencilSize")
        gl_profile   == get_pixel_format_attribute(context_descriptor, "kCGLPFAOpenGLProfile")
    IN  [flags |-> {f \in ContextAttributeFlags :
                      \/ f = "ALPHA" /\ alpha_size # 0
                      \/ f = "DEPTH" /\ depth_size # 0
                      \/ f = "STENCIL" /\ stencil_size # 0},
         version |-> GLVersion_new((gl_profile \div 4096) % 16,
                                   (gl_profile \div 16) % 16)]

\* Device::context_descriptor_attributes: x >> 12 is x \div 4096, x >> 8 is
\* x \div 256 and & 0xf is % 16.
context_descriptor_attributes(context_descriptor) ==
    LET alpha_size   == get_pixel_format_attribute(context_descriptor, "kCGLPFAAlphaSize")
        depth_size   == get_pixel_format_attribute(context_descriptor, "kCGLPFADepthSize")
        stencil_size == get_pixel_format_attribute(context_descriptor, "kCGLPFAStencilSize")
        gl_profile   == get_pixel_format_attribute(context_descriptor, "kCGLPFAOpenGLProfile")
    IN  [flags |-> {f \in ContextAttributeFlags :
                      \/ f = "ALPHA" /\ alpha_size # 0
                      \/ f = "DEPTH" /\ depth_size # 0
                      \/ f = "STENCIL" /\ stencil_size # 0},
         version |-> GLVersion_new((gl_profile \div 4096) % 16,
                                   (gl_profile \div 256) % 16)]

\* ----- the state after construction --------------------------------------
Init ==
    /\ contexts = <<>>
    /\ ctxMeta = <<>>
    /\ bindLog = <<>>
    /\ held = {}
    /\ textures = {}
    /\ numSurfaces = 0
    /\ nativeLive = {}
    /\ cglLive = {}
    /\ cglSerial = 0
    /\ current = NullContext
    /\ panicking = FALSE
    /\ next_context_id = 0
    /\ mutex = None
    /\ pc = [t \in Threads |-> "idle"]
    /\ local = [t \in Threads |-> [cgl_context |-> NullContext, id |-> 0]]
    /\ wrapLog = {}
    /\ createdFor = <<>>
    /\ descriptor = None
    /\ last = [op |-> "init", c |-> 0, arg |-> None, result |-> "Ok",
               ret |-> None, dropped |-> None, fault |-> "none",
               native |-> TRUE, pre |-> None, preBind |-> None,
               preLive |-> {}, preCurrent |-> NullContext,
               wasPanicking |-> FALSE, rebind |-> FALSE]

HeldContexts == {i \in 1..Len(contexts) : ctxMeta[i].held}
InCreation   == {t \in Threads : pc[t] # "idle"}

\* ----- Device::create_context, one step per statement --------------------
\* (variant: create_context takes no lock)
LockNotTaken == TRUE

\* CREATE_CONTEXT_MUTEX.lock() returns when no thread holds the mutex.
LockAvailable == mutex = None

CreateStep(result) ==
    Call("create_context", 0, None, result, None, None, "none", TRUE)

\* The thread calls create_context and reaches CREATE_CONTEXT_MUTEX.lock().
Enter(t) ==
    /\ pc[t] = "idle"
    /\ Len(contexts) + Cardinality(InCreation) < MaxContexts
    /\ pc' = [pc EXCEPT ![t] = "calling"]
    /\ last' = CreateStep("Called")
    /\ UNCHANGED <<contexts, ctxMeta, bindLog, held, textures, numSurfaces,
                   nativeLive, cglLive, cglSerial, current, panicking,
                   next_context_id, mutex, local>>
    /\ UNCHANGED <<wrapLog, createdFor, descriptor>>

Lock(t) ==
    /\ pc[t] = "calling"
    /\ LockAvailable
    /\ mutex' = Some(t)
    /\ pc' = [pc EXCEPT ![t] = "locked"]
    /\ last' = CreateStep("Locked")
    /\ UNCHANGED <<contexts, ctxMeta, bindLog, held, textures, numSurfaces,
                   nativeLive, cglLive, cglSerial, current, panicking,
                   next_context_id, local>>
    /\ UNCHANGED <<wrapLog, createdFor, descriptor>>

\* (variant: the error return leaves the mutex locked)
NativeCreate_keeping_lock(t) ==
    /\ pc[t] = "locked"
    /\ \E ok \in BOOLEAN :
         IF ok
         THEN /\ cglSerial' = cglSerial + 1
              /\ cglLive' = cglLive \cup {cglSerial + 1}
              /\ local' = [local EXCEPT ![t].cgl_context = cglSerial + 1]
              /\ pc' = [pc EXCEPT ![t] = "created"]
              /\ last' = CreateStep("Created")
              /\ UNCHANGED mutex
         ELSE /\ UNCHANGED mutex
              /\ pc' = [pc EXCEPT ![t] = "idle"]
              /\ last' = CreateStep("ContextCreationFailed")
              /\ UNCHANGED <<cglSerial, cglLive, local>>
    /\ UNCHANGED <<contexts, ctxMeta, bindLog, held, textures, numSurfaces,
                   nativeLive, current, panicking, next_context_id>>
    /\ UNCHANGED <<wrapLog, createdFor, descriptor>>

\* CGLCreateContext: on an error the function returns and the guard unlocks.
NativeCreate(t) ==
    /\ pc[t] = "locked"
    /\ \E ok \in BOOLEAN :
         IF ok
         THEN /\ cglSerial' = cglSerial + 1
              /\ cglLive' = cglLive \cup {cglSerial + 1}
              /\ local' = [local EXCEPT ![t].cgl_context = cglSerial + 1]
              /\ pc' = [pc EXCEPT ![t] = "created"]
              /\ last' = CreateStep("Created")
              /\ UNCHANGED mutex
         ELSE /\ mutex' = None
              /\ pc' = [pc EXCEPT ![t] = "idle"]
              /\ last' = CreateStep("ContextCreationFailed")
              /\ UNCHANGED <<cglSerial, cglLive, local>>
    /\ UNCHANGED <<contexts, ctxMeta, bindLog, held, textures, numSurfaces,
                   nativeLive, current, panicking, next_context_id>>
    /\ UNCHANGED <<wrapLog, createdFor, descriptor>>

\* id: *next_context_id
Wrap(t) ==
    /\ pc[t] = "created"
    /\ local' = [local EXCEPT ![t].id = next_context_id]
    /\ pc' = [pc EXCEPT ![t] = "wrapped"]
    /\ last' = CreateStep("Wrapped")
    /\ UNCHANGED <<contexts, ctxMeta, bindLog, held, textures, numSurfaces,
                   nativeLive, cglLive, cglSerial, current, panicking,
                   next_context_id, mutex>>
    /\ UNCHANGED <<wrapLog, createdFor, descriptor>>

\* next_context_id.0 += 1
Increment(t) ==
    /\ pc[t] = "wrapped"
    /\ next_context_id' = next_context_id + 1
    /\ pc' = [pc EXCEPT ![t] = "incremented"]
    /\ last' = CreateStep("Incremented")
    /\ UNCHANGED <<contexts, ctxMeta, bindLog, held, textures, numSurfaces,
                   nativeLive, cglLive, cglSerial, current, panicking, mutex,
                   local>>
    /\ UNCHANGED <<wrapLog, createdFor, descriptor>>

\* Ok(context): the context reaches the caller and the guard unlocks.
Return(t) ==
    /\ pc[t] = "incremented"
    /\ contexts' = Append(contexts, [cgl_context |-> local[t].cgl_context,
                                     id |-> local[t].id,
                                     framebuffer |-> FramebufferNone])
    /\ ctxMeta' = Append(ctxMeta, [held |-> TRUE, creator |-> t,
                                   destroyedOk |-> FALSE])
    /\ bindLog' = Append(bindLog, None)
    /\ mutex' = None
    /\ pc' = [pc EXCEPT ![t] = "idle"]
    /\ last' = CreateStep("Ok")
    /\ UNCHANGED <<held, textures, numSurfaces, nativeLive, cglLive, cglSerial,
                   current, panicking, next_context_id, local>>
    /\ UNCHANGED <<wrapLog, createdFor, descriptor>>

\* A context wrapped around a render target of the windowing layer: it takes
\* its ID from the guarded counter like any other and starts BoundExternal.
WrapExternalContext(t) ==
    /\ pc[t] = "idle"
    /\ Len(contexts) + Cardinality(InCreation) < MaxContexts
    /\ LockAvailable
    /\ cglSerial' = cglSerial + 1
    /\ cglLive' = cglLive \cup {cglSerial + 1}
    /\ contexts' = Append(contexts, [cgl_context |-> cglSerial + 1,
                                     id |-> next_context_id,
                                     framebuffer |-> FramebufferExternal])
    /\ ctxMeta' = Append(ctxMeta, [held |-> TRUE, creator |-> t,
                                   destroyedOk |-> FALSE])
    /\ bindLog' = Append(bindLog, None)
    /\ next_context_id' = next_context_id + 1
    /\ last' = Call("wrap_external_context", 0, None, "Ok", None, None,
                    "none", TRUE)
    /\ UNCHANGED <<held, textures, numSurfaces, nativeLive, current, panicking,
                   mutex, pc, local>>
    /\ UNCHANGED <<wrapLog, createdFor, descriptor>>


\* ----- the operations the Main thread calls ------------------------------
Idle == pc[Main] = "idle"
threadVars == <<next_context_id, mutex, pc, local, cglSerial>>

CreateSurface(c, surface_type, size, nativeOk) ==
    /\ Idle
    /\ numSurfaces < MaxSurfaces
    /\ size \in (IF surface_type = "Generic" THEN GenericSizes ELSE WindowSizes)
    /\ LET r == create_surface(contexts[c], surface_type, size, nativeLive,
                               numSurfaces + 1, nativeOk)
       IN  /\ held' = IF r.surface = None THEN held ELSE held \cup {r.surface[1]}
           /\ nativeLive' = r.live
           /\ panicking' = (panicking \/ r.assert)
           /\ last' = Call("create_surface", c, None, r.result, r.surface, None,
                           IF r.assert THEN "assert" ELSE "none", nativeOk)
    /\ numSurfaces' = numSurfaces + 1
    /\ createdFor' = Append(createdFor, contexts[c].id)
    /\ UNCHANGED <<contexts, ctxMeta, bindLog, textures, cglLive, current>>
    /\ UNCHANGED threadVars
    /\ UNCHANGED <<wrapLog, descriptor>>

BindSurfaceToContext(c, s) ==
    /\ Idle
    /\ LET r == bind_surface_to_context(contexts[c], s)
           f == DropFault(r.dropped, panicking)
       IN  /\ contexts' = [contexts EXCEPT ![c] = r.context]
           /\ bindLog' = IF r.result = "Ok"
                         THEN [bindLog EXCEPT ![c] = Some(s)] ELSE bindLog
           /\ panicking' = (panicking \/ f # "none")
           /\ last' = Call("bind_surface_to_context", c, Some(s), r.result,
                           None, r.dropped, f, TRUE)
    /\ held' = held \ {s}
    /\ UNCHANGED <<ctxMeta, textures, numSurfaces, nativeLive, cglLive, current>>
    /\ UNCHANGED threadVars
    /\ UNCHANGED <<wrapLog, createdFor, descriptor>>

UnbindSurfaceFromContext(c, setOk) ==
    /\ Idle
    /\ (contexts[c].framebuffer.tag # "Surface" => setOk)
    /\ LET r == unbind_surface_from_context(contexts[c], current, setOk)
           f == DropFault(r.dropped, panicking)
       IN  /\ contexts' = [contexts EXCEPT ![c] = r.context]
           /\ bindLog' = IF r.context.framebuffer.tag = "Surface"
                         THEN bindLog ELSE [bindLog EXCEPT ![c] = None]
           /\ held' = IF r.ret = None THEN held ELSE held \cup {r.ret[1]}
           /\ current' = r.current
           /\ panicking' = (panicking \/ f # "none")
           /\ last' = Call("unbind_surface_from_context", c, None, r.result,
                           r.ret, r.dropped, f, setOk)
    /\ UNCHANGED <<ctxMeta, textures, numSurfaces, nativeLive, cglLive>>
    /\ UNCHANGED threadVars
    /\ UNCHANGED <<wrapLog, createdFor, descriptor>>

DestroySurface(c, s) ==
    /\ Idle
    /\ LET r == destroy_surface(contexts[c], s, nativeLive)
           f == IF r.assert THEN "assert"
                ELSE DropFault(Some(r.surface), panicking)
       IN  /\ nativeLive' = r.live
           /\ panicking' = (panicking \/ f # "none")
           /\ last' = Call("destroy_surface", c, Some(s), r.result, None,
                           Some(r.surface), f, TRUE)
    /\ held' = held \ {s}
    /\ UNCHANGED <<contexts, ctxMeta, bindLog, textures, numSurfaces, cglLive,
                   current>>
    /\ UNCHANGED threadVars
    /\ UNCHANGED <<wrapLog, createdFor, descriptor>>

DestroyContext(c) ==
    /\ Idle
    /\ LET r == destroy_context(contexts[c], nativeLive, cglLive, current)
           f == IF r.assert THEN "assert" ELSE DropFault(r.dropped, panicking)
       IN  /\ contexts' = [contexts EXCEPT ![c] = r.context]
           /\ bindLog' = IF r.context.framebuffer.tag = "Surface"
                         THEN bindLog ELSE [bindLog EXCEPT ![c] = None]
           /\ nativeLive' = r.live
           /\ cglLive' = r.cgl
           /\ current' = r.current
           /\ panicking' = (panicking \/ f # "none")
           /\ last' = Call("destroy_context", c, None, r.result, None,
                           r.dropped, f, TRUE)
           /\ ctxMeta' = [ctxMeta EXCEPT ![c].destroyedOk =
                                     @ \/ (r.result = "Ok" /\ f = "none")]
    /\ UNCHANGED <<held, textures, numSurfaces>>
    /\ UNCHANGED threadVars
    /\ UNCHANGED <<wrapLog, createdFor, descriptor>>

MakeContextCurrent(c, setOk) ==
    /\ Idle
    /\ LET r == make_context_current(contexts[c], current, setOk)
       IN  /\ current' = r.current
           /\ last' = Call("make_context_current", c, None, r.result, None,
                           None, "none", setOk)
    /\ UNCHANGED <<contexts, ctxMeta, bindLog, held, textures, numSurfaces,
                   nativeLive, cglLive, panicking>>
    /\ UNCHANGED threadVars
    /\ UNCHANGED <<wrapLog, createdFor, descriptor>>

\* Device::make_no_context_current
MakeNoContextCurrent(setOk) ==
    /\ Idle
    /\ current' = IF setOk THEN NullContext ELSE current
    /\ last' = Call("make_no_context_current", 0, None,
                    IF setOk THEN "Ok" ELSE "MakeCurrentFailed", None, None,
                    "none", setOk)
    /\ UNCHANGED <<contexts, ctxMeta, bindLog, held, textures, numSurfaces,
                   nativeLive, cglLive, panicking>>
    /\ UNCHANGED threadVars
    /\ UNCHANGED <<wrapLog, createdFor, descriptor>>

\* The surface that create_surface_texture was given when it made st.
Wrapped(st) ==
    LET made == {w \in wrapLog : w[1] = st.texture_object}
    IN  IF made = {} THEN None ELSE Some((CHOOSE w \in made : TRUE)[2])

CreateSurfaceTexture(c, s) ==
    /\ Idle
    /\ LET r == create_surface_texture(s, nativeLive)
           f == DropFault(r.dropped, panicking)
       IN  /\ textures' = IF r.texture = None THEN textures
                          ELSE textures \cup {r.texture[1]}
           /\ wrapLog' = IF r.texture = None THEN wrapLog
                         ELSE wrapLog \cup {<<r.texture[1].texture_object, s>>}
           /\ nativeLive' = r.live
           /\ panicking' = (panicking \/ f # "none")
           /\ last' = Call("create_surface_texture", c, Some(s), r.result,
                           None, r.dropped, f, TRUE)
    /\ held' = held \ {s}
    /\ UNCHANGED <<contexts, ctxMeta, bindLog, numSurfaces, cglLive, current>>
    /\ UNCHANGED threadVars
    /\ UNCHANGED <<createdFor, descriptor>>

DestroySurfaceTexture(c, st) ==
    /\ Idle
    /\ LET r == destroy_surface_texture(st, nativeLive)
       IN  /\ held' = held \cup {r.ret[1]}
           /\ nativeLive' = r.live
           /\ last' = Call("destroy_surface_texture", c, Wrapped(st),
                           r.result, r.ret, None, "none", TRUE)
    /\ textures' = textures \ {st}
    /\ wrapLog' = {w \in wrapLog : w[1] # st.texture_object}
    /\ UNCHANGED <<contexts, ctxMeta, bindLog, numSurfaces, cglLive, current,
                   panicking>>
    /\ UNCHANGED threadVars
    /\ UNCHANGED <<createdFor, descriptor>>

PresentSurface(c, s) ==
    /\ Idle
    /\ LET r == present_surface(s)
       IN  /\ held' = (held \ {s}) \cup {r.surface}
           /\ last' = Call("present_surface", c, Some(s), r.result,
                           Some(r.surface), None, "none", TRUE)
    /\ UNCHANGED <<contexts, ctxMeta, bindLog, textures, numSurfaces,
                   nativeLive, cglLive, current, panicking>>
    /\ UNCHANGED threadVars
    /\ UNCHANGED <<wrapLog, createdFor, descriptor>>

\* ----- values going out of scope in the caller ---------------------------
DropSurface(s) ==
    /\ Idle
    /\ held' = held \ {s}
    /\ LET f == DropFault(Some(s), panicking)
       IN  /\ panicking' = (panicking \/ f # "none")
           /\ last' = Call("drop_surface", 0, Some(s), "Ok", None, Some(s), f,
                           TRUE)
    /\ UNCHANGED <<contexts, ctxMeta, bindLog, textures, numSurfaces,
                   nativeLive, cglLive, current>>
    /\ UNCHANGED threadVars
    /\ UNCHANGED <<wrapLog, createdFor, descriptor>>

\* The panic, if any, of dropping a Context: Context::drop runs first, then
\* the framebuffer field (and the surface in it) is dropped.
ContextDropFault(context, isPanicking) ==
    IF drop_Context(context, isPanicking) THEN "context_drop"
    ELSE DropFault(context.framebuffer.surface, isPanicking)

DropContext(c) ==
    /\ Idle
    /\ ctxMeta' = [ctxMeta EXCEPT ![c].held = FALSE]
    /\ contexts' = [contexts EXCEPT ![c].framebuffer = FramebufferNone]
    /\ bindLog' = [bindLog EXCEPT ![c] = None]
    /\ LET f == ContextDropFault(contexts[c], panicking)
       IN  /\ panicking' = (panicking \/ f # "none")
           /\ last' = Call("drop_context", c, None, "Ok", None,
                           contexts[c].framebuffer.surface, f, TRUE)
    /\ UNCHANGED <<held, textures, numSurfaces, nativeLive, cglLive, current>>
    /\ UNCHANGED threadVars
    /\ UNCHANGED <<wrapLog, createdFor, descriptor>>

\* ----- context descriptors ------------------------------------------------
lifecycleVars == <<contexts, ctxMeta, bindLog, held, textures, numSurfaces,
                   nativeLive, cglLive, current, panicking, wrapLog,
                   createdFor>>

\* The descriptor is kept with the attributes the caller asked for.
CreateContextDescriptor(attributes, is_low_power, native) ==
    /\ descriptor = None
    /\ LET r == create_context_descriptor(attributes, is_low_power, native)
       IN  /\ descriptor' = IF r.descriptor = None THEN None
                            ELSE Some([requested |-> attributes,
                                       value |-> r.descriptor[1]])
           /\ last' = Call("create_context_descriptor", 0, Some(attributes),
                           r.result, r.descriptor, None, "none",
                           native = "found")
    /\ UNCHANGED lifecycleVars
    /\ UNCHANGED threadVars

ContextDescriptorAttributes ==
    /\ descriptor # None
    /\ last' = Call("context_descriptor_attributes", 0,
                    Some(descriptor[1].requested), "Ok",
                    Some(context_descriptor_attributes(descriptor[1].value)),
                    None, "none", TRUE)
    /\ UNCHANGED descriptor
    /\ UNCHANGED lifecycleVars
    /\ UNCHANGED threadVars

\* impl Drop for ContextDescriptor: CGLReleasePixelFormat.
DropContextDescriptor ==
    /\ descriptor # None
    /\ descriptor' = None
    /\ last' = Call("drop_context_descriptor", 0, None, "Ok", None, None,
                    "none", TRUE)
    /\ UNCHANGED lifecycleVars
    /\ UNCHANGED threadVars

\* ----- the specification -------------------------------------------------
CreateContext(t) ==
    \/ Enter(t)
    \/ Lock(t)
    \/ NativeCreate(t)
    \/ Wrap(t)
    \/ Increment(t)
    \/ Return(t)

\* The lifecycle of contexts and surfaces on the thread that owns them.
Next ==
    \/ CreateContext(Main)
    \/ WrapExternalContext(Main)
    \/ \E c \in HeldContexts, ty \in {"Generic", "Widget"},
          size \in GenericSizes \cup WindowSizes,
          ok \in BOOLEAN : CreateSurface(c, ty, size, ok)
    \/ \E c \in HeldContexts, s \in held : BindSurfaceToContext(c, s)
    \/ \E c \in HeldContexts, ok \in BOOLEAN : UnbindSurfaceFromContext(c, ok)
    \/ \E c \in HeldContexts, s \in held : DestroySurface(c, s)
    \/ \E c \in HeldContexts : DestroyContext(c)
    \/ \E c \in HeldContexts, ok \in BOOLEAN : MakeContextCurrent(c, ok)
    \/ \E ok \in BOOLEAN : MakeNoContextCurrent(ok)
    \/ \E c \in HeldContexts, s \in held : CreateSurfaceTexture(c, s)
    \/ \E c \in HeldContexts, st \in textures : DestroySurfaceTexture(c, st)
    \/ \E c \in HeldContexts, s \in held : PresentSurface(c, s)
    \/ \E s \in held : DropSurface(s)
    \/ \E c \in HeldContexts : DropContext(c)

Spec == Init /\ [][Next]_vars

\* Several threads creating contexts at once, and contexts being destroyed
\* and dropped meanwhile.
NextThreads ==
    \/ \E t \in Threads : CreateContext(t)
    \/ \E t \in Threads : WrapExternalContext(t)
    \/ \E c \in HeldContexts : DestroyContext(c)
    \/ \E c \in HeldContexts : DropContext(c)

SpecThreads == Init /\ [][NextThreads]_vars

\* The same under fair scheduling: a thread inside create_context keeps
\* running, and a thread waiting for the mutex gets it if the mutex keeps
\* becoming free.
ThreadsFairness ==
    \A t \in Threads :
        /\ SF_vars(Lock(t))
        /\ WF_vars(NativeCreate(t))
        /\ WF_vars(Wrap(t))
        /\ WF_vars(Increment(t))
        /\ WF_vars(Return(t))

SpecThreadsFair == Init /\ [][NextThreads]_vars /\ ThreadsFairness

\* Context descriptors being created from attribute sets, read back and
\* dropped.
NextDescriptor ==
    \/ \E attributes \in ContextAttributes, is_low_power \in BOOLEAN,
          native \in {"error", "none", "found"} :
            CreateContextDescriptor(attributes, is_low_power, native)
    \/ ContextDescriptorAttributes
    \/ DropContextDescriptor

SpecDescriptor == Init /\ [][NextDescriptor]_vars


\* ======================= properties ======================================
\* last records the call that led to the state: last.pre is the context as
\* it was before the call, contexts[last.c] the context after it.
IsCall(l, op) == l.op = op
Rejections == {"IncompatibleSurface", "SurfaceAlreadyBound",
               "ExternalRenderTarget"}

\* C1: binding a surface whose context_id differs from the context's id,
\* while the context is Unbound, fails with IncompatibleSurface (that is what
\* the caller gets) and leaves the context's binding state as it was.
C1_BindIncompatibleFails ==
    ( /\ IsCall(last, "bind_surface_to_context")
      /\ last.pre[1].framebuffer.tag = "None"
      /\ last.arg[1].context_id # last.pre[1].id )
    => ( /\ Outcome(last) = "IncompatibleSurface"
         /\ contexts[last.c].framebuffer = last.pre[1].framebuffer )

\* C2: while a surface is bound to a context, a further bind fails with
\* SurfaceAlreadyBound (that is what the caller gets) and leaves the context
\* bound to the first surface.
C2_SecondBindFails ==
    ( /\ IsCall(last, "bind_surface_to_context")
      /\ last.pre[1].framebuffer.tag = "Surface" )
    => ( /\ Outcome(last) = "SurfaceAlreadyBound"
         /\ contexts[last.c].framebuffer = last.pre[1].framebuffer )

\* C3: a rejected bind is a recoverable error: the error value reaches the
\* caller and no fault is raised for the surface passed in.
C3_RejectedBindIsNoFault ==
    ( IsCall(last, "bind_surface_to_context") /\ last.result \in Rejections )
    => ( Outcome(last) = last.result /\ last.fault = "none" )

C5_BindUnbindRoundTrip ==
    /\ ( /\ IsCall(last, "unbind_surface_from_context")
         /\ Outcome(last) = "Ok"
         /\ last.preBind # None )
       => last.ret = last.preBind
    /\ last.rebind
       => ( /\ Outcome(last) = "Ok"
            /\ contexts[last.c].framebuffer = FramebufferSurface(last.arg[1]) )

C5_Witness ==
    /\ last.rebind
    /\ Outcome(last) = "Ok"
    /\ contexts[last.c].framebuffer = FramebufferSurface(last.arg[1])

\* C6: context IDs are handed out in strictly increasing order of creation,
\* whatever the interleaving of the creating threads; so no two contexts
\* have the same ID.
C6_IdsStrictlyIncrease ==
    \A i, j \in 1..Len(contexts) :
        i < j => contexts[i].id < contexts[j].id

C6_Witness ==
    /\ IsCall(last, "create_context")
    /\ last.result = "Ok"
    /\ Len(contexts) >= 2
    /\ ctxMeta[1].creator # ctxMeta[2].creator
    /\ contexts[1].id < contexts[2].id

\* C7: destroy_context on a live context with a bound surface S, when it
\* returns Ok, has destroyed S (handles released and zeroed, destroyed set),
\* left the context Unbound with a null native handle, and dropping the
\* context then raises no fault.
C7_DestroyContextDestroysSurface ==
    ( /\ IsCall(last, "destroy_context")
      /\ last.pre[1].cgl_context # NullContext
      /\ last.pre[1].framebuffer.tag = "Surface"
      /\ Outcome(last) = "Ok" )
    => LET S == last.pre[1].framebuffer.surface[1]
       IN  /\ last.dropped # None
           /\ last.dropped[1].destroyed
           /\ Handles(last.dropped[1].objects) = {}
           /\ Handles(S.objects) # {}
           /\ Handles(S.objects) \subseteq last.preLive
           /\ Handles(S.objects) \cap nativeLive = {}
           /\ contexts[last.c].framebuffer = FramebufferNone
           /\ contexts[last.c].cgl_context = NullContext
           /\ ContextDropFault(contexts[last.c], panicking) = "none"

C7_Witness ==
    /\ IsCall(last, "destroy_context")
    /\ last.pre[1].cgl_context # NullContext
    /\ last.pre[1].framebuffer.tag = "Surface"
    /\ Outcome(last) = "Ok"
    /\ last.dropped[1].destroyed
    /\ contexts[last.c].cgl_context = NullContext

\* C8: destroy_surface with a surface of another context returns
\* IncompatibleSurface, marks the surface destroyed, releases none of its
\* native resources and leaves its handles as they were, and raises no fault.
C8_DestroyMismatchLeaks ==
    ( /\ IsCall(last, "destroy_surface")
      /\ last.arg[1].context_id # last.pre[1].id )
    => ( /\ Outcome(last) = "IncompatibleSurface"
         /\ last.dropped = Some([last.arg[1] EXCEPT !.destroyed = TRUE])
         /\ nativeLive = last.preLive
         /\ Handles(last.arg[1].objects) \subseteq nativeLive
         /\ last.fault = "none" )

C8_Witness ==
    /\ IsCall(last, "destroy_surface")
    /\ last.result = "IncompatibleSurface"
    /\ last.arg[1].context_id # last.pre[1].id
    /\ Handles(last.dropped[1].objects) # {}
    /\ Handles(last.dropped[1].objects) \subseteq nativeLive

\* C9: destroy_surface with a surface of this context returns Ok, releases
\* every native resource the surface's variant tracks (four for Generic, one
\* for Window), sets each tracked handle to its null sentinel and marks the
\* surface destroyed.
C9_DestroyReleasesAll ==
    ( /\ IsCall(last, "destroy_surface")
      /\ last.arg[1].context_id = last.pre[1].id )
    => LET S == last.arg[1]
           D == last.dropped[1]
       IN  /\ Outcome(last) = "Ok"
           /\ Cardinality(Handles(S.objects))
                = IF S.objects.tag = "EGLImage" THEN 4 ELSE 1
           /\ Handles(S.objects) \subseteq last.preLive
           /\ nativeLive = last.preLive \ Handles(S.objects)
           /\ D.objects.tag = S.objects.tag
           /\ Handles(D.objects) = {}
           /\ D.destroyed

C9_Witness ==
    /\ IsCall(last, "destroy_surface")
    /\ last.arg[1].context_id = last.pre[1].id
    /\ Outcome(last) = "Ok"
    /\ last.arg[1].objects.tag = "EGLImage"
    /\ Handles(last.arg[1].objects) \cap nativeLive = {}
    /\ last.dropped[1].destroyed

\* C10: whenever a Surface is dropped, the drop raises a fault exactly when
\* the surface's destroyed flag is false and the thread is not already
\* unwinding from another fault.
C10_SurfaceDropFault ==
    last.dropped # None
    => LET unwinding == \/ last.wasPanicking
                        \/ last.fault \in {"context_drop", "assert"}
       IN  (last.fault = "surface_drop")
             <=> (~last.dropped[1].destroyed /\ ~unwinding)

C10_Witness ==
    /\ last.dropped # None
    /\ ~last.dropped[1].destroyed
    /\ last.wasPanicking
    /\ last.fault = "none"

\* C11: dropping a Context whose native handle is not null raises a fault,
\* unless the thread is already unwinding; a Context for which
\* destroy_context returned Ok has a null handle, and dropping it raises no
\* fault on account of the handle.
C11_ContextDropFault ==
    /\ IsCall(last, "drop_context")
       => /\ ( last.pre[1].cgl_context # NullContext /\ ~last.wasPanicking )
                => last.fault = "context_drop"
          /\ ( last.pre[1].cgl_context # NullContext /\ last.wasPanicking )
                => last.fault = "none"
          /\ ctxMeta[last.c].destroyedOk => last.fault # "context_drop"
    /\ \A i \in 1..Len(contexts) :
          ctxMeta[i].destroyedOk => contexts[i].cgl_context = NullContext

C11_Witness ==
    /\ IsCall(last, "drop_context")
    /\ last.pre[1].cgl_context # NullContext
    /\ ~last.wasPanicking
    /\ last.fault = "context_drop"

\* C12: create_surface_texture with a Window surface fails with
\* WidgetAttached, which reaches the caller, creates no texture and raises
\* no fault; with a Generic surface it succeeds and the SurfaceTexture it
\* returns owns the surface.
C12_SurfaceTextureOfWindowFails ==
    IsCall(last, "create_surface_texture")
    => /\ last.arg[1].objects.tag = "Window"
            => ( /\ Outcome(last) = "WidgetAttached"
                 /\ last.fault = "none"
                 /\ nativeLive = last.preLive )
       /\ last.arg[1].objects.tag = "EGLImage"
            => ( /\ Outcome(last) = "Ok"
                 /\ \E st \in textures : st.surface = last.arg[1] )

\* C13: present_surface succeeds for a Window surface and fails with
\* NoWidgetAttached for a Generic surface; every call leaves the surface
\* (size, context_id, destroyed, handles) and the native objects as they
\* were.
C13_PresentLeavesSurface ==
    IsCall(last, "present_surface")
    => /\ last.arg[1].objects.tag = "Window" => Outcome(last) = "Ok"
       /\ last.arg[1].objects.tag = "EGLImage"
            => Outcome(last) = "NoWidgetAttached"
       /\ last.ret = last.arg
       /\ last.ret[1] \in held
       /\ nativeLive = last.preLive

C13_Witness ==
    /\ IsCall(last, "present_surface")
    /\ last.arg[1].objects.tag = "Window"
    /\ Outcome(last) = "Ok"
    /\ last.ret = last.arg
    /\ last.ret[1].size \in WindowSizes
    /\ last.ret[1] \in held

\* C14: destroy_surface_texture returns the very Surface that
\* create_surface_texture was given (a Generic surface), not destroyed and
\* with its image, framebuffer, texture and renderbuffer handles as they
\* were and still allocated; the one native object released is the derived
\* texture.
C14_SurfaceTextureRoundTrip ==
    IsCall(last, "destroy_surface_texture")
    => /\ Outcome(last) = "Ok"
       /\ last.arg # None
       /\ last.ret = last.arg
       /\ last.ret[1] \in held
       /\ ~last.ret[1].destroyed
       /\ last.ret[1].objects.tag = "EGLImage"
       /\ Cardinality(Handles(last.ret[1].objects)) = 4
       /\ Handles(last.ret[1].objects) \subseteq nativeLive
       /\ nativeLive \subseteq last.preLive
       /\ Cardinality(last.preLive \ nativeLive) = 1

C14_Witness ==
    /\ IsCall(last, "destroy_surface_texture")
    /\ Outcome(last) = "Ok"
    /\ last.arg # None
    /\ last.ret = last.arg
    /\ ~last.ret[1].destroyed
    /\ Cardinality(last.preLive \ nativeLive) = 1
    /\ textures = {}

\* The surfaces that exist and are not destroyed: those the caller holds,
\* those bound to a context and those wrapped in a SurfaceTexture.
LiveSurfaces ==
    held
    \cup {contexts[i].framebuffer.surface[1] :
             i \in {j \in 1..Len(contexts) :
                      contexts[j].framebuffer.tag = "Surface"}}
    \cup {st.surface : st \in textures}

\* The create_surface call that made a live surface, from the name of the
\* first native object made for it.
SerialOf(s) ==
    LET first == IF s.objects.tag = "Window" THEN s.objects.egl_surface
                 ELSE s.objects.texture_object
    IN  (first + 4) \div 5

\* C15: a surface returned by create_surface(C, ..) has context_id = C.id,
\* and every surface, wherever bind, unbind, present, create / destroy
\* surface texture have moved it, still has the id of the context it was
\* created for; destroy_surface and destroy_context leave the context_id of
\* the surface they destroy as it was.
C15_ContextIdIsFixed ==
    /\ ( IsCall(last, "create_surface") /\ last.ret # None )
       => ( last.ret[1].context_id = last.pre[1].id /\ last.ret[1] \in held )
    /\ \A s \in LiveSurfaces :
          /\ SerialOf(s) \in 1..Len(createdFor)
          /\ s.context_id = createdFor[SerialOf(s)]
    /\ IsCall(last, "destroy_surface")
       => last.dropped[1].context_id = last.arg[1].context_id
    /\ ( IsCall(last, "destroy_context") /\ last.dropped # None )
       => last.dropped[1].context_id
            = last.pre[1].framebuffer.surface[1].context_id

C15_Witness ==
    /\ IsCall(last, "unbind_surface_from_context")
    /\ Outcome(last) = "Ok"
    /\ last.ret # None
    /\ last.ret[1] \in held
    /\ Len(contexts) = 2
    /\ last.ret[1].context_id = contexts[2].id
    /\ createdFor[SerialOf(last.ret[1])] = contexts[2].id
    /\ contexts[1].id # contexts[2].id

\* C16: destroy_context on a context whose native handle is already null
\* returns Ok and changes nothing: not the context, not a surface or a
\* native object, not the thread's current context.
C16_DestroyContextIdempotent ==
    ( IsCall(last, "destroy_context")
      /\ last.pre[1].cgl_context = NullContext )
    => ( /\ Outcome(last) = "Ok"
         /\ contexts[last.c] = last.pre[1]
         /\ last.dropped = None
         /\ nativeLive = last.preLive
         /\ current = last.preCurrent )

C16_Witness ==
    /\ IsCall(last, "destroy_context")
    /\ last.pre[1].cgl_context = NullContext
    /\ ctxMeta[last.c].destroyedOk
    /\ Outcome(last) = "Ok"
    /\ contexts[last.c] = last.pre[1]
    /\ last.preCurrent # NullContext
    /\ current = last.preCurrent

\* C17: destroy_context on a live context, when it returns Ok, clears the
\* thread's current context if that was this context, and leaves another
\* context that was current still current.
C17_DestroyContextKeepsOtherCurrent ==
    ( /\ IsCall(last, "destroy_context")
      /\ last.pre[1].cgl_context # NullContext
      /\ Outcome(last) = "Ok" )
    => ( /\ last.preCurrent = last.pre[1].cgl_context
              => current = NullContext
         /\ last.preCurrent # last.pre[1].cgl_context
              => current = last.preCurrent )

\* C18: after unbind_surface_from_context, whatever it returns (Some(S),
\* None or an error) and also when it ends in a fault, the thread's current
\* context is the one that was current before the call.
C18_UnbindRestoresCurrent ==
    IsCall(last, "unbind_surface_from_context")
    => current = last.preCurrent

C18_Witness ==
    /\ IsCall(last, "unbind_surface_from_context")
    /\ Outcome(last) = "Ok"
    /\ last.ret # None
    /\ last.pre[1].cgl_context # NullContext
    /\ last.preCurrent # NullContext
    /\ last.preCurrent # last.pre[1].cgl_context
    /\ current = last.preCurrent

\* C19: when the native call that makes the interop image (Generic) or the
\* swap-chain surface (Widget) fails, create_surface returns an Error
\* result: it raises no fault and returns no Surface; and a Surface it
\* returns never carries a null image or surface handle.
C19_CreateSurfaceReportsFailure ==
    IsCall(last, "create_surface")
    => /\ ~last.native
            => ( /\ last.fault = "none"
                 /\ Outcome(last) \notin {"Ok", "Panic"}
                 /\ last.ret = None )
       /\ last.ret # None
            => IF last.ret[1].objects.tag = "Window"
               THEN last.ret[1].objects.egl_surface # NoSurface
               ELSE last.ret[1].objects.egl_image # NoImage

\* C20 as stated: the attributes read back from a descriptor created from
\* the attribute set A have the flags of A and the major and minor version
\* of A.
C20_DescriptorRoundTrip ==
    IsCall(last, "context_descriptor_attributes")
    => ( /\ last.ret[1].flags = last.arg[1].flags
         /\ last.ret[1].version = last.arg[1].version )

\* C20 amended: the attributes read back have the flags of A and the version
\* of the profile chosen for A: 4.1 when A asks for major 4 or more, 3.2
\* when it asks for major 3, 1.0 otherwise.
C20_DescriptorRoundTripAmended ==
    IsCall(last, "context_descriptor_attributes")
    => LET A == last.arg[1]
       IN  /\ last.ret[1].flags = A.flags
           /\ last.ret[1].version =
                  IF A.version.major >= 4 THEN [major |-> 4, minor |-> 1]
                  ELSE IF A.version.major = 3 THEN [major |-> 3, minor |-> 2]
                  ELSE [major |-> 1, minor |-> 0]

C20_Witness ==
    /\ IsCall(last, "context_descriptor_attributes")
    /\ last.arg[1].flags = {"DEPTH"}
    /\ last.arg[1].version = [major |-> 3, minor |-> 3]
    /\ last.ret[1].flags = {"DEPTH"}
    /\ last.ret[1].version = [major |-> 3, minor |-> 2]

\* C21: CREATE_CONTEXT_MUTEX is held only by a thread that is inside
\* create_context past the lock, so it is free whenever that thread has
\* returned, with Ok or with ContextCreationFailed; and under fair
\* scheduling every thread that calls create_context gets the lock and
\* then returns, the mutex released.
C21_MutexReleasedOnReturn ==
    /\ [](\A t \in Threads :
            mutex = Some(t)
              <=> pc[t] \in {"locked", "created", "wrapped", "incremented"})
    /\ \A t \in Threads : (pc[t] = "calling") ~> (mutex = Some(t))
    /\ \A t \in Threads :
          (mutex = Some(t)) ~> (pc[t] = "idle" /\ mutex # Some(t))

C21_Witness ==
    /\ IsCall(last, "create_context")
    /\ last.result = "ContextCreationFailed"
    /\ mutex = None
    /\ \E t \in Threads : pc[t] = "calling"
    /\ \E t \in Threads : pc[t] = "idle"

\* C22: a surface in a context's slot has the context's id as its
\* context_id; so destroy_context on a context with a bound surface does not
\* return an error, and on a live context it destroys the surface (it does
\* not leak it).
C22_BoundSurfaceIsCompatible ==
    /\ \A i \in 1..Len(contexts) :
          contexts[i].framebuffer.tag = "Surface"
            => contexts[i].framebuffer.surface[1].context_id = contexts[i].id
    /\ ( IsCall(last, "destroy_context")
         /\ last.pre[1].framebuffer.tag = "Surface" )
       => /\ Outcome(last) = "Ok"
          /\ last.pre[1].cgl_context # NullContext
               => ( /\ last.dropped # None
                    /\ last.dropped[1].destroyed
                    /\ Handles(last.pre[1].framebuffer.surface[1].objects)
                          \cap nativeLive = {} )

C22_Witness ==
    /\ IsCall(last, "destroy_context")
    /\ last.pre[1].framebuffer.tag = "Surface"
    /\ last.pre[1].cgl_context # NullContext
    /\ Outcome(last) = "Ok"
    /\ Len(contexts) = 2
    /\ contexts[1].id # contexts[2].id
    /\ last.pre[1].framebuffer.surface[1].context_id = last.pre[1].id
    /\ last.dropped[1].destroyed

\* C23: in every state a context whose native handle is null is Unbound; a
\* bind to a context that has been destroyed leaves no surface bound to it.
C23_DestroyedContextIsUnbound ==
    \A i \in 1..Len(contexts) :
        contexts[i].cgl_context = NullContext
          => contexts[i].framebuffer.tag = "None"

\* C24: when unbind_surface_from_context selects an error result, the
\* context's slot is as it was before the call and no surface was dropped.
C24_FailedUnbindKeepsSurface ==
    ( IsCall(last, "unbind_surface_from_context") /\ last.result # "Ok" )
    => ( /\ contexts[last.c].framebuffer = last.pre[1].framebuffer
         /\ last.dropped = None
         /\ last.fault = "none" )

\* The contexts that have a surface in their slot.
BoundContexts ==
    {i \in 1..Len(contexts) : contexts[i].framebuffer.tag = "Surface"}

\* C25: every surface has one holder at most at a time (the caller, one
\* context's slot or one SurfaceTexture); a holder never holds a surface
\* marked destroyed, and a surface that destroy_surface or destroy_context
\* destroyed is held nowhere afterwards, so its flag never returns to false;
\* what a holder holds is allocated, and a destroy releases exactly the
\* handles of its surface, each allocated until then: none is released
\* twice.
C25_SingleOwnerSingleRelease ==
    /\ \A s1, s2 \in held : SerialOf(s1) = SerialOf(s2) => s1 = s2
    /\ \A st1, st2 \in textures :
          SerialOf(st1.surface) = SerialOf(st2.surface) => st1 = st2
    /\ \A i, j \in BoundContexts :
          SerialOf(contexts[i].framebuffer.surface[1])
            = SerialOf(contexts[j].framebuffer.surface[1]) => i = j
    /\ \A s \in held, st \in textures : SerialOf(s) # SerialOf(st.surface)
    /\ \A i \in BoundContexts :
          /\ \A s \in held :
                SerialOf(s) # SerialOf(contexts[i].framebuffer.surface[1])
          /\ \A st \in textures :
                SerialOf(st.surface)
                  # SerialOf(contexts[i].framebuffer.surface[1])
    /\ \A s \in LiveSurfaces :
          /\ ~s.destroyed
          /\ Handles(s.objects) # {}
          /\ Handles(s.objects) \subseteq nativeLive
    /\ \A s1, s2 \in LiveSurfaces :
          s1 # s2 => Handles(s1.objects) \cap Handles(s2.objects) = {}
    /\ \A st \in textures :
          /\ st.texture_object \in nativeLive
          /\ \A s \in LiveSurfaces : st.texture_object \notin Handles(s.objects)
    /\ ( last.op \in {"destroy_surface", "destroy_context"}
         /\ last.dropped # None /\ Outcome(last) = "Ok" )
       => LET S == IF last.op = "destroy_surface" THEN last.arg[1]
                   ELSE last.pre[1].framebuffer.surface[1]
          IN  /\ last.dropped[1].destroyed
              /\ Handles(S.objects) \subseteq last.preLive
              /\ last.preLive \ nativeLive = Handles(S.objects)
              /\ \A s \in LiveSurfaces : SerialOf(s) # SerialOf(S)

C25_Witness ==
    /\ IsCall(last, "destroy_surface")
    /\ Outcome(last) = "Ok"
    /\ last.preLive \ nativeLive = Handles(last.arg[1].objects)
    /\ BoundContexts # {}
    /\ held = {}
    /\ \A s \in LiveSurfaces : SerialOf(s) # SerialOf(last.arg[1])

====
